---- MODULE Spec2Model ----
(***************************************************************************)
(* State-machine model of the NYC 311 ETL scripts:                         *)
(*   etl/download_311_2025.py       ("y2025":     paginated, YEAR filter)   *)
(*   etl/download_311_full_year.py  ("full_year": paginated, no filter)     *)
(*   etl/download_311_sample.py     ("sample":    one request, CSV)         *)
(*   etl/clean_311_full_year.py     ("clean":     the cleaning transformer) *)
(* One behaviour is one run of one script.  The remote endpoint and the     *)
(* file system are the environment: the pages the server returns, whether   *)
(* a request fails, and the prior content of the files are chosen freely    *)
(* from bounded sets.                                                       *)
(***************************************************************************)
EXTENDS Integers, Sequences, FiniteSets, TLC

VARIABLES
    script,       \* which entry point runs
    pc,           \* position in main()
    outcome,      \* "running", "ok" (main returned), "error" (uncaught exception)
    raw_file,     \* content of RAW_PATH (input of the cleaner), or NoFile
    out_file,     \* content of the script's output path, or NoFile
    prior_file,   \* content of the output path before the run started
    df,           \* the DataFrame main() works on, or NoTable
    all_chunks,   \* download_311_2025: list of per-page DataFrames
    all_rows,     \* download_311_full_year: flat list of rows
    offset,       \* the loop's $offset
    total_rows,   \* download_311_2025: cumulative row count
    requests,     \* server log: the $offset of every GET issued, in order
    responses     \* server log: what each GET returned (a page, or HTTPError)

vars == <<script, pc, outcome, raw_file, out_file, prior_file, df, all_chunks,
          all_rows, offset, total_rows, requests, responses>>

(***************************************************************************)
(* Bounds of the model.                                                    *)
(***************************************************************************)
MaxRows == 2        \* rows of a raw table given to the cleaner
MaxRequests == 4    \* GETs the server answers in one run

(***************************************************************************)
(* Program constants.                                                      *)
(***************************************************************************)
YEAR == 2025
LIMIT == 50000
SAMPLE_LIMIT == 10000
MAX_HOURS == 24 * 30

cols_to_keep == <<"created_date", "closed_date", "complaint_type", "descriptor",
                  "agency", "borough", "incident_zip", "latitude", "longitude">>

num_cols == <<"resolution_hours", "month", "hour", "weekday", "is_weekend">>

Range(s) == {s[i] : i \in 1..Len(s)}

(***************************************************************************)
(* Cells.  Every cell of a table is a record [tag, v] with v a tuple of     *)
(* integers:                                                                *)
(*   "str"       a JSON string; v = <<y, mo, d, h, mi>> when the text is an *)
(*               ISO timestamp "y-mo-dTh:mi:00", <<>> for other text        *)
(*   "null"      None / NaN (field missing in the row)                      *)
(*   "datetime"  a pandas Timestamp; v = <<minutes since 1970-01-01>>       *)
(*   "NaT"       not-a-time                                                 *)
(*   "int64"     v = <<n>>                                                  *)
(*   "float64", "float32"   the rational v[1] / v[2] in lowest terms        *)
(***************************************************************************)
Str(v) == [tag |-> "str", v |-> v]
Null == [tag |-> "null", v |-> <<>>]
NaT == [tag |-> "NaT", v |-> <<>>]
Timestamp(m) == [tag |-> "datetime", v |-> <<m>>]
Int64(n) == [tag |-> "int64", v |-> <<n>>]

Abs(x) == IF x < 0 THEN -x ELSE x

RECURSIVE GCD(_, _)
GCD(a, b) == IF b = 0 THEN a ELSE GCD(b, a % b)

\* num / den as a float cell, in lowest terms (den > 0)
Float(tag, num, den) ==
    LET g == GCD(Abs(num), den)
    IN  [tag |-> tag, v |-> <<num \div g, den \div g>>]

IsNumber(c) == c.tag \in {"int64", "float64", "float32"}
Num(c) == c.v[1]
Den(c) == IF c.tag = "int64" THEN 1 ELSE c.v[2]

\* comparisons of a numeric cell with an integer, free of large products
GeInt(c, n) == Num(c) >= n * Den(c)
LeInt(c, n) ==
    LET q == Num(c) \div Den(c)     \* floor
    IN  q < n \/ (q = n /\ Num(c) % Den(c) = 0)
EqInt(c, n) == Num(c) = n * Den(c)

(***************************************************************************)
(* The proleptic Gregorian calendar, as pandas' datetime parsing and its    *)
(* .dt field accessors compute it.                                          *)
(***************************************************************************)
IsLeap(y) == (y % 4 = 0 /\ y % 100 # 0) \/ y % 400 = 0

DaysInMonth(y, m) ==
    IF m = 2 THEN (IF IsLeap(y) THEN 29 ELSE 28)
    ELSE IF m \in {4, 6, 9, 11} THEN 30 ELSE 31

DaysFromCivil(y0, m, d) ==
    LET y == IF m <= 2 THEN y0 - 1 ELSE y0
        era == y \div 400
        yoe == y - era * 400
        mp == IF m > 2 THEN m - 3 ELSE m + 9
        doy == (153 * mp + 2) \div 5 + d - 1
        doe == yoe * 365 + yoe \div 4 - yoe \div 100 + doy
    IN  era * 146097 + doe - 719468

CivilFromDays(z0) ==
    LET z == z0 + 719468
        era == z \div 146097
        doe == z - era * 146097
        yoe == (doe - doe \div 1460 + doe \div 36524 - doe \div 146096) \div 365
        doy == doe - (365 * yoe + yoe \div 4 - yoe \div 100)
        mp == (5 * doy + 2) \div 153
        d == doy - (153 * mp + 2) \div 5 + 1
        m == IF mp < 10 THEN mp + 3 ELSE mp - 9
        y == yoe + era * 400 + (IF m <= 2 THEN 1 ELSE 0)
    IN  [year |-> y, month |-> m, day |-> d]

IsValidStamp(v) ==
    /\ Len(v) = 5
    /\ v[1] \in 1970..2100
    /\ v[2] \in 1..12
    /\ v[3] \in 1..DaysInMonth(v[1], v[2])
    /\ v[4] \in 0..23
    /\ v[5] \in 0..59

\* pd.to_datetime(x, errors="coerce") on one cell
to_datetime(c) ==
    IF c.tag = "datetime" THEN c
    ELSE IF c.tag = "str" /\ IsValidStamp(c.v)
    THEN Timestamp(DaysFromCivil(c.v[1], c.v[2], c.v[3]) * 1440 + c.v[4] * 60 + c.v[5])
    ELSE NaT

notna(c) == c.tag \notin {"NaT", "null"}

\* the .dt accessors; NaN on NaT
dt_year(c) == IF c.tag = "datetime" THEN Int64(CivilFromDays(c.v[1] \div 1440).year) ELSE Null
dt_month(c) == IF c.tag = "datetime" THEN Int64(CivilFromDays(c.v[1] \div 1440).month) ELSE Null
dt_hour(c) == IF c.tag = "datetime" THEN Int64((c.v[1] % 1440) \div 60) ELSE Null
dt_weekday(c) == IF c.tag = "datetime" THEN Int64((c.v[1] \div 1440 + 3) % 7) ELSE Null

\* (closed - created).dt.total_seconds() / 3600; the float64 quotient is held as
\* the exact rational (its 53-bit rounding does not move it across 0 or 720)
resolution_hours(created, closed) ==
    Float("float64", (closed.v[1] - created.v[1]) * 60, 3600)

is_weekend_mutant(weekday) ==
    IF IsNumber(weekday) /\ EqInt(weekday, 6) THEN Int64(1) ELSE Int64(0)

\* df["weekday"].isin([5, 6]).astype(int)
is_weekend(weekday) ==
    IF IsNumber(weekday) /\ (EqInt(weekday, 5) \/ EqInt(weekday, 6)) THEN Int64(1) ELSE Int64(0)

\* keep = (resolution_hours >= 0) & (resolution_hours <= 24 * 30)
KeepResolutionMutant(c) == GeInt(c, 0)
KeepResolution(c) == GeInt(c, 0) /\ LeInt(c, MAX_HOURS)

(***************************************************************************)
(* pd.to_numeric(x, downcast="float"): the value rounded to IEEE binary32   *)
(* (24-bit significand, round half to even), kept when it is within 5e-4 of *)
(* the original, otherwise the original is left as it was.                  *)
(***************************************************************************)
Pow2(k) == 2 ^ k

RECURSIVE Scale(_, _, _)
\* least k >= 0 with num * 2^k >= 2^23 * den, for 0 < num/den < 2^24
Scale(num, den, k) ==
    LET reached == IF k <= 23 THEN num \div den >= Pow2(23 - k)
                   ELSE num * Pow2(k - 23) >= den
    IN  IF reached THEN k ELSE Scale(num, den, k + 1)

RoundHalfEven(n, den) ==
    LET q == n \div den
        r == n % den
    IN  IF 2 * r > den \/ (2 * r = den /\ q % 2 = 1) THEN q + 1 ELSE q

DowncastFloat(c) ==
    IF ~IsNumber(c) THEN c
    ELSE IF Num(c) = 0 THEN Float("float32", 0, 1)
    ELSE LET a == Abs(Num(c))
             sign == IF Num(c) < 0 THEN -1 ELSE 1
             k == Scale(a, Den(c), 0)
             m == RoundHalfEven(a * Pow2(k), Den(c))
             rem == Abs(m * Den(c) - a * Pow2(k))
             close == (rem * 2000 + Den(c) - 1) \div Den(c) <= Pow2(k)
         IN  IF close THEN Float("float32", sign * m, Pow2(k)) ELSE c

(***************************************************************************)
(* Tables.  A DataFrame (and a written file) is [cols, rows]: cols the set  *)
(* of its column names and rows a sequence of row groups [n, row], n >= 1   *)
(* consecutive rows that all equal row, a function from cols to cells.      *)
(* A JSON page is a sequence of such groups whose rows are dicts (functions *)
(* from the keys the row carries to cells).                                 *)
(***************************************************************************)
NoFile == [exists |-> FALSE]
NoTable == [exists |-> FALSE]

Group(n, row) == [n |-> n, row |-> row]

RECURSIVE RowCount(_)
RowCount(rows) == IF rows = <<>> THEN 0 ELSE Head(rows).n + RowCount(Tail(rows))

Keys(rows) == UNION {DOMAIN rows[i].row : i \in 1..Len(rows)}

\* pd.DataFrame(rows) / pd.DataFrame.from_records(rows): the columns are the
\* union of the keys, a key a row lacks is NaN in that row
DataFrame(rows) ==
    LET cols == Keys(rows)
    IN  [cols |-> cols,
         rows |-> [i \in 1..Len(rows) |->
                     Group(rows[i].n,
                           [c \in cols |-> IF c \in DOMAIN rows[i].row
                                           THEN rows[i].row[c] ELSE Null])]]

RECURSIVE Flatten(_)
Flatten(chunks) == IF chunks = <<>> THEN <<>> ELSE Head(chunks).rows \o Flatten(Tail(chunks))

\* pd.concat(frames, ignore_index=True)
concat(chunks) == DataFrame(Flatten(chunks))

\* df[cols]
Project(t, cols) ==
    [cols |-> cols,
     rows |-> [i \in 1..Len(t.rows) |->
                 Group(t.rows[i].n, [c \in cols |-> t.rows[i].row[c]])]]

\* df[mask]: the row groups that satisfy keep(row), in order
Filter(t, keep(_)) ==
    [cols |-> t.cols, rows |-> SelectSeq(t.rows, LAMBDA g : keep(g.row))]

\* df[col] = f(row), for every row
Assign(t, col, f(_)) ==
    [cols |-> t.cols \cup {col},
     rows |-> [i \in 1..Len(t.rows) |->
                 Group(t.rows[i].n,
                       [c \in t.cols \cup {col} |->
                          IF c = col THEN f(t.rows[i].row) ELSE t.rows[i].row[c]])]]

(***************************************************************************)
(* clean_311_full_year.main, statement by statement.                       *)
(***************************************************************************)
DateCols == {"created_date", "closed_date"}

existing_cols_mutant(t) == t.cols
existing_cols(t) == {c \in Range(cols_to_keep) : c \in t.cols}

ParseColumn(t, col) == Assign(t, col, LAMBDA r : to_datetime(r[col]))

dropna(t) == Filter(t, LAMBDA r : notna(r["created_date"]) /\ notna(r["closed_date"]))

AddResolution(t) ==
    Assign(t, "resolution_hours",
           LAMBDA r : resolution_hours(r["created_date"], r["closed_date"]))

FilterResolution(t) == Filter(t, LAMBDA r : KeepResolution(r["resolution_hours"]))

AddTimeFeatures(t) ==
    LET t1 == Assign(t, "month", LAMBDA r : dt_month(r["created_date"]))
        t2 == Assign(t1, "hour", LAMBDA r : dt_hour(r["created_date"]))
        t3 == Assign(t2, "weekday", LAMBDA r : dt_weekday(r["created_date"]))
    IN  Assign(t3, "is_weekend", LAMBDA r : is_weekend(r["weekday"]))

RECURSIVE DowncastColumns(_, _)
DowncastColumns(t, cs) ==
    IF cs = <<>> THEN t
    ELSE LET col == Head(cs)
             t1 == IF col \in t.cols
                   THEN Assign(t, col, LAMBDA r : DowncastFloat(r[col]))
                   ELSE t
         IN  DowncastColumns(t1, Tail(cs))

CleanRunning == script = "clean" /\ outcome = "running"

CleanFrame == UNCHANGED <<script, raw_file, prior_file, all_chunks, all_rows,
                          offset, total_rows, requests, responses>>

\* line 15, RAW_PATH missing: pd.read_parquet raises
CleanLoadMissing ==
    /\ CleanRunning /\ pc = "load"
    /\ raw_file = NoFile
    /\ outcome' = "error"
    /\ UNCHANGED <<pc, df, out_file>>
    /\ CleanFrame

\* line 15
CleanLoad ==
    /\ CleanRunning /\ pc = "load"
    /\ raw_file # NoFile
    /\ df' = raw_file
    /\ pc' = "project"
    /\ UNCHANGED <<outcome, out_file>>
    /\ CleanFrame

\* lines 20-32
CleanProject ==
    /\ CleanRunning /\ pc = "project"
    /\ df' = Project(df, existing_cols(df))
    /\ pc' = "parse"
    /\ UNCHANGED <<outcome, out_file>>
    /\ CleanFrame

\* the KeyError swallowed: an empty file is written and main returns
CleanParseKeyErrorMutant ==
    /\ CleanRunning /\ pc = "parse"
    /\ ~(DateCols \subseteq df.cols)
    /\ out_file' = [cols |-> {}, rows |-> <<>>]
    /\ pc' = "done"
    /\ outcome' = "ok"
    /\ UNCHANGED df
    /\ CleanFrame

\* lines 36-37, a date column is not in df: KeyError
CleanParseKeyError ==
    /\ CleanRunning /\ pc = "parse"
    /\ ~(DateCols \subseteq df.cols)
    /\ outcome' = "error"
    /\ UNCHANGED <<pc, df, out_file>>
    /\ CleanFrame

\* lines 36-37
CleanParse ==
    /\ CleanRunning /\ pc = "parse"
    /\ DateCols \subseteq df.cols
    /\ df' = ParseColumn(ParseColumn(df, "created_date"), "closed_date")
    /\ pc' = "dropna"
    /\ UNCHANGED <<outcome, out_file>>
    /\ CleanFrame

\* line 40
CleanDropna ==
    /\ CleanRunning /\ pc = "dropna"
    /\ df' = dropna(df)
    /\ pc' = "resolution"
    /\ UNCHANGED <<outcome, out_file>>
    /\ CleanFrame

\* lines 44-46
CleanResolution ==
    /\ CleanRunning /\ pc = "resolution"
    /\ df' = AddResolution(df)
    /\ pc' = "filter"
    /\ UNCHANGED <<outcome, out_file>>
    /\ CleanFrame

\* line 49
CleanFilter ==
    /\ CleanRunning /\ pc = "filter"
    /\ df' = FilterResolution(df)
    /\ pc' = "features"
    /\ UNCHANGED <<outcome, out_file>>
    /\ CleanFrame

\* lines 53-56
CleanFeatures ==
    /\ CleanRunning /\ pc = "features"
    /\ df' = AddTimeFeatures(df)
    /\ pc' = "downcast"
    /\ UNCHANGED <<outcome, out_file>>
    /\ CleanFrame

\* lines 59-62
CleanDowncast ==
    /\ CleanRunning /\ pc = "downcast"
    /\ df' = DowncastColumns(df, num_cols)
    /\ pc' = "save"
    /\ UNCHANGED <<outcome, out_file>>
    /\ CleanFrame

\* line 68, then main returns
CleanSave ==
    /\ CleanRunning /\ pc = "save"
    /\ out_file' = df
    /\ pc' = "done"
    /\ outcome' = "ok"
    /\ UNCHANGED df
    /\ CleanFrame

(***************************************************************************)
(* The raw tables given to the cleaner.                                    *)
(***************************************************************************)
OtherWanted == Range(cols_to_keep) \ DateCols
ExtraCols == {"unique_key"}
Text == Str(<<>>)

\* (created_date, closed_date) as the raw file holds them
RawDatePairs ==
    { <<Null, Str(<<2025, 3, 3, 10, 0>>)>>,                            \* created missing
      <<Text, Str(<<2025, 3, 3, 10, 0>>)>>,                            \* created is ""
      <<Str(<<2025, 3, 1, 10, 0>>), Null>>,                            \* still open
      <<Str(<<2025, 3, 1, 10, 0>>), Str(<<2025, 2, 30, 10, 0>>)>>,     \* no such day
      <<Str(<<2025, 3, 1, 10, 0>>), Str(<<2025, 3, 3, 10, 0>>)>>,      \* Sat, 48 h
      <<Str(<<2025, 3, 1, 10, 0>>), Str(<<2025, 3, 31, 10, 0>>)>>,     \* Sat, 720 h
      <<Str(<<2025, 3, 1, 10, 0>>), Str(<<2025, 3, 31, 10, 1>>)>>,     \* 720 h 1 min
      <<Str(<<2025, 3, 1, 10, 0>>), Str(<<2025, 4, 10, 10, 0>>)>>,     \* 960 h
      <<Str(<<2025, 3, 3, 10, 0>>), Str(<<2025, 3, 1, 10, 0>>)>>,      \* Mon, -48 h
      <<Str(<<2025, 3, 2, 0, 0>>), Str(<<2025, 3, 2, 0, 0>>)>>,        \* Sun, 0 h
      <<Str(<<2025, 2, 28, 23, 59>>), Str(<<2025, 3, 1, 10, 0>>)>>,    \* Fri, 10 h 1 min
      <<Str(<<2025, 3, 1, 10, 1>>), Str(<<2025, 3, 31, 10, 0>>)>> }    \* Sat, 719 h 59 min

RawColumnSets ==
    { d \cup o \cup e :
        d \in SUBSET DateCols,
        o \in {x \in SUBSET OtherWanted : Cardinality(x) \in {0, 1, 7}},
        e \in SUBSET ExtraCols }

RawRow(cols, p) ==
    [c \in cols |-> IF c = "created_date" THEN p[1]
                    ELSE IF c = "closed_date" THEN p[2] ELSE Text]

\* the raw table with columns cols whose i-th row holds the dates ps[i]
RawTable(cols, ps) ==
    [cols |-> cols, rows |-> [i \in DOMAIN ps |-> Group(1, RawRow(cols, ps[i]))]]

StaleTable == [cols |-> {"stale"}, rows |-> <<Group(1, [c \in {"stale"} |-> Text])>>]

(***************************************************************************)
(* The remote endpoint.  A GET is answered with a page of at most $limit    *)
(* rows, or fails (raise_for_status on a non-2xx status, or requests.get    *)
(* raising on a transport failure).                                         *)
(***************************************************************************)
Failures == {"HTTPError", "ConnectionError"}

Response(status, body) == [status |-> status, body |-> body]

ServerRows ==
    { [k \in {"unique_key"} |-> Text],                                   \* no created_date
      [k \in {"unique_key", "created_date"} |-> Text],                   \* unparseable
      [k \in {"unique_key", "created_date"} |->
         IF k = "created_date" THEN Str(<<2024, 12, 31, 23, 59>>) ELSE Text],
      [k \in {"unique_key", "created_date"} |->
         IF k = "created_date" THEN Str(<<2025, 3, 1, 10, 0>>) ELSE Text] }

InYear(row) ==
    "created_date" \in DOMAIN row /\ row["created_date"] = Str(<<2025, 3, 1, 10, 0>>)

\* the non-empty pages a request with $limit = limit can be answered with
Pages(limit) ==
    {<<Group(n, r)>> : n \in {1, limit}, r \in ServerRows}
    \cup {<<Group(1, r), Group(limit - 1, q)>> :
            r \in {x \in ServerRows : ~InYear(x)}, q \in {x \in ServerRows : InYear(x)}}

Paginated == script \in {"y2025", "full_year"}

DownloadFrame == UNCHANGED <<script, raw_file, prior_file>>

(***************************************************************************)
(* download_311_2025.main                                                  *)
(***************************************************************************)
Y25Running == script = "y2025" /\ outcome = "running"

\* the failure swallowed: treated as the end of the data
Y25FetchErrorMutant ==
    /\ Y25Running /\ pc = "loop" /\ Len(requests) < MaxRequests
    /\ \E f \in Failures :
         responses' = Append(responses, Response(f, <<>>))
    /\ requests' = Append(requests, [limit |-> LIMIT, offset |-> offset])
    /\ pc' = "after_loop"
    /\ UNCHANGED <<outcome, out_file, df, all_chunks, all_rows, offset, total_rows>>
    /\ DownloadFrame

\* lines 75, 55-56: the request fails and the exception leaves main
Y25FetchError ==
    /\ Y25Running /\ pc = "loop" /\ Len(requests) < MaxRequests
    /\ \E f \in Failures :
         responses' = Append(responses, Response(f, <<>>))
    /\ requests' = Append(requests, [limit |-> LIMIT, offset |-> offset])
    /\ outcome' = "error"
    /\ UNCHANGED <<pc, out_file, df, all_chunks, all_rows, offset, total_rows>>
    /\ DownloadFrame

\* lines 73-92, a non-empty page
Y25FetchPage ==
    /\ Y25Running /\ pc = "loop" /\ Len(requests) < MaxRequests
    /\ \E rows \in Pages(LIMIT) :
         /\ responses' = Append(responses, Response("200", rows))
         /\ all_chunks' = Append(all_chunks, DataFrame(rows))
         /\ total_rows' = total_rows + RowCount(DataFrame(rows).rows)
    /\ requests' = Append(requests, [limit |-> LIMIT, offset |-> offset])
    /\ offset' = offset + LIMIT
    /\ UNCHANGED <<pc, outcome, out_file, df, all_rows>>
    /\ DownloadFrame

\* the empty page does not end the loop
Y25FetchEmptyMutant ==
    /\ Y25Running /\ pc = "loop" /\ Len(requests) < MaxRequests
    /\ responses' = Append(responses, Response("200", <<>>))
    /\ requests' = Append(requests, [limit |-> LIMIT, offset |-> offset])
    /\ offset' = offset + LIMIT
    /\ UNCHANGED <<pc, outcome, out_file, df, all_chunks, all_rows, total_rows>>
    /\ DownloadFrame

\* lines 73-79, an empty page: break
Y25FetchEmpty ==
    /\ Y25Running /\ pc = "loop" /\ Len(requests) < MaxRequests
    /\ responses' = Append(responses, Response("200", <<>>))
    /\ requests' = Append(requests, [limit |-> LIMIT, offset |-> offset])
    /\ pc' = "after_loop"
    /\ UNCHANGED <<outcome, out_file, df, all_chunks, all_rows, offset, total_rows>>
    /\ DownloadFrame

\* no early return: an empty table goes on to the write
Y25NoDataMutant ==
    /\ Y25Running /\ pc = "after_loop"
    /\ all_chunks = <<>>
    /\ df' = concat(all_chunks)
    /\ pc' = "save"
    /\ UNCHANGED <<outcome, out_file, all_chunks, all_rows, offset, total_rows,
                   requests, responses>>
    /\ DownloadFrame

\* lines 94-96: nothing downloaded, return
Y25NoData ==
    /\ Y25Running /\ pc = "after_loop"
    /\ all_chunks = <<>>
    /\ pc' = "done"
    /\ outcome' = "ok"
    /\ UNCHANGED <<out_file, df, all_chunks, all_rows, offset, total_rows,
                   requests, responses>>
    /\ DownloadFrame

\* line 98
Y25Concat ==
    /\ Y25Running /\ pc = "after_loop"
    /\ all_chunks # <<>>
    /\ df' = concat(all_chunks)
    /\ pc' = "validate"
    /\ UNCHANGED <<outcome, out_file, all_chunks, all_rows, offset, total_rows,
                   requests, responses>>
    /\ DownloadFrame

YearFilterMutant(t) ==
    Filter(ParseColumn(t, "created_date"), LAMBDA r : notna(r["created_date"]))

\* lines 102-113
YearFilter(t) ==
    Filter(ParseColumn(t, "created_date"),
           LAMBDA r : /\ dt_year(r["created_date"]) = Int64(YEAR)
                      /\ notna(r["created_date"]))

\* lines 101-113
Y25Validate ==
    /\ Y25Running /\ pc = "validate"
    /\ df' = IF "created_date" \in df.cols THEN YearFilter(df) ELSE df
    /\ pc' = "save"
    /\ UNCHANGED <<outcome, out_file, all_chunks, all_rows, offset, total_rows,
                   requests, responses>>
    /\ DownloadFrame

\* lines 116-117, then main returns
Y25Save ==
    /\ Y25Running /\ pc = "save"
    /\ out_file' = df
    /\ pc' = "done"
    /\ outcome' = "ok"
    /\ UNCHANGED <<df, all_chunks, all_rows, offset, total_rows, requests, responses>>
    /\ DownloadFrame

(***************************************************************************)
(* download_311_full_year.main                                             *)
(***************************************************************************)
FYRunning == script = "full_year" /\ outcome = "running"

\* lines 42, 23-24: the request fails and the exception leaves main
FYFetchError ==
    /\ FYRunning /\ pc = "loop" /\ Len(requests) < MaxRequests
    /\ \E f \in Failures :
         responses' = Append(responses, Response(f, <<>>))
    /\ requests' = Append(requests, [limit |-> LIMIT, offset |-> offset])
    /\ outcome' = "error"
    /\ UNCHANGED <<pc, out_file, df, all_chunks, all_rows, offset, total_rows>>
    /\ DownloadFrame

\* the offset advanced by the rows received instead of by limit
FYFetchPageMutant ==
    /\ FYRunning /\ pc = "loop" /\ Len(requests) < MaxRequests
    /\ \E chunk \in Pages(LIMIT) :
         /\ responses' = Append(responses, Response("200", chunk))
         /\ all_rows' = all_rows \o chunk
         /\ offset' = offset + RowCount(chunk)
    /\ requests' = Append(requests, [limit |-> LIMIT, offset |-> offset])
    /\ UNCHANGED <<pc, outcome, out_file, df, all_chunks, total_rows>>
    /\ DownloadFrame

\* lines 41-47, a non-empty page
FYFetchPage ==
    /\ FYRunning /\ pc = "loop" /\ Len(requests) < MaxRequests
    /\ \E chunk \in Pages(LIMIT) :
         /\ responses' = Append(responses, Response("200", chunk))
         /\ all_rows' = all_rows \o chunk
    /\ requests' = Append(requests, [limit |-> LIMIT, offset |-> offset])
    /\ offset' = offset + LIMIT
    /\ UNCHANGED <<pc, outcome, out_file, df, all_chunks, total_rows>>
    /\ DownloadFrame

\* lines 41-45, an empty page: break
FYFetchEmpty ==
    /\ FYRunning /\ pc = "loop" /\ Len(requests) < MaxRequests
    /\ responses' = Append(responses, Response("200", <<>>))
    /\ requests' = Append(requests, [limit |-> LIMIT, offset |-> offset])
    /\ pc' = "convert"
    /\ UNCHANGED <<outcome, out_file, df, all_chunks, all_rows, offset, total_rows>>
    /\ DownloadFrame

\* line 52
FYConvert ==
    /\ FYRunning /\ pc = "convert"
    /\ df' = DataFrame(all_rows)
    /\ pc' = "save"
    /\ UNCHANGED <<outcome, out_file, all_chunks, all_rows, offset, total_rows,
                   requests, responses>>
    /\ DownloadFrame

\* the new rows appended to the file already there
FYSaveMutant ==
    /\ FYRunning /\ pc = "save"
    /\ out_file' = IF out_file = NoFile THEN df ELSE concat(<<out_file, df>>)
    /\ pc' = "done"
    /\ outcome' = "ok"
    /\ UNCHANGED <<df, all_chunks, all_rows, offset, total_rows, requests, responses>>
    /\ DownloadFrame

\* lines 55-56, then main returns
FYSave ==
    /\ FYRunning /\ pc = "save"
    /\ out_file' = df
    /\ pc' = "done"
    /\ outcome' = "ok"
    /\ UNCHANGED <<df, all_chunks, all_rows, offset, total_rows, requests, responses>>
    /\ DownloadFrame

(***************************************************************************)
(* download_311_sample.main                                                *)
(***************************************************************************)
SampleRunning == script = "sample" /\ outcome = "running"

\* lines 35, 25-26: the request fails and the exception leaves main
SampleFetchError ==
    /\ SampleRunning /\ pc = "fetch" /\ Len(requests) < MaxRequests
    /\ \E f \in Failures :
         responses' = Append(responses, Response(f, <<>>))
    /\ requests' = Append(requests, [limit |-> SAMPLE_LIMIT])
    /\ outcome' = "error"
    /\ UNCHANGED <<pc, out_file, df, all_chunks, all_rows, offset, total_rows>>
    /\ DownloadFrame

\* lines 35, 25-31
SampleFetch ==
    /\ SampleRunning /\ pc = "fetch" /\ Len(requests) < MaxRequests
    /\ \E data \in Pages(SAMPLE_LIMIT) \cup {<<>>} :
         /\ responses' = Append(responses, Response("200", data))
         /\ df' = DataFrame(data)
    /\ requests' = Append(requests, [limit |-> SAMPLE_LIMIT])
    /\ pc' = "save"
    /\ UNCHANGED <<outcome, out_file, all_chunks, all_rows, offset, total_rows>>
    /\ DownloadFrame

\* lines 37-38, then main returns
SampleSave ==
    /\ SampleRunning /\ pc = "save"
    /\ out_file' = df
    /\ pc' = "done"
    /\ outcome' = "ok"
    /\ UNCHANGED <<df, all_chunks, all_rows, offset, total_rows, requests, responses>>
    /\ DownloadFrame

(***************************************************************************)
(* Specifications: one run of the cleaner, one run of a downloader.        *)
(***************************************************************************)
InitRun ==
    /\ outcome = "running"
    /\ out_file = prior_file
    /\ df = NoTable
    /\ all_chunks = <<>>
    /\ all_rows = <<>>
    /\ offset = 0
    /\ total_rows = 0
    /\ requests = <<>>
    /\ responses = <<>>

InitClean ==
    /\ script = "clean"
    /\ pc = "load"
    /\ \/ raw_file = NoFile
       \/ \E cols \in RawColumnSets, k \in 0..MaxRows :
             \E ps \in [1..k -> RawDatePairs] : raw_file = RawTable(cols, ps)
    /\ prior_file \in {NoFile, StaleTable}
    /\ InitRun

InitDownload ==
    /\ script \in {"y2025", "full_year", "sample"}
    /\ pc = IF script = "sample" THEN "fetch" ELSE "loop"
    /\ raw_file = NoFile
    /\ prior_file \in {NoFile, StaleTable}
    /\ InitRun

NextClean ==
    \/ CleanLoadMissing \/ CleanLoad \/ CleanProject \/ CleanParseKeyError
    \/ CleanParse \/ CleanDropna \/ CleanResolution \/ CleanFilter
    \/ CleanFeatures \/ CleanDowncast \/ CleanSave

NextDownload ==
    \/ Y25FetchError \/ Y25FetchPage \/ Y25FetchEmpty \/ Y25NoData
    \/ Y25Concat \/ Y25Validate \/ Y25Save
    \/ FYFetchError \/ FYFetchPage \/ FYFetchEmpty \/ FYConvert \/ FYSave
    \/ SampleFetchError \/ SampleFetch \/ SampleSave

SpecClean == InitClean /\ [][NextClean]_vars

SpecDownload == InitDownload /\ [][NextDownload]_vars

(***************************************************************************)
(* Properties of the cleaning transformer (checked under SpecClean).       *)
(***************************************************************************)
IsTable(x) == "cols" \in DOMAIN x

Rows(t) == {t.rows[i].row : i \in 1..Len(t.rows)}

CleanWritten == script = "clean" /\ pc = "done" /\ IsTable(out_file)

Has(r, c) == c \in DOMAIN r

Schema == Range(cols_to_keep) \cup Range(num_cols)

\* C1: every row of the written cleaned table has a non-null created_date and
\* closed_date, closed_date - created_date lies between 0 and 720 hours, and
\* its resolution_hours value satisfies 0 <= resolution_hours <= 720.
C1_ResolutionBounds ==
    CleanWritten =>
        \A r \in Rows(out_file) :
            /\ Has(r, "created_date") /\ r["created_date"].tag = "datetime"
            /\ Has(r, "closed_date") /\ r["closed_date"].tag = "datetime"
            /\ r["closed_date"].v[1] - r["created_date"].v[1] \in 0..(720 * 60)
            /\ Has(r, "resolution_hours") /\ IsNumber(r["resolution_hours"])
            /\ GeInt(r["resolution_hours"], 0)
            /\ LeInt(r["resolution_hours"], 720)

\* a written table that kept a row of exactly 720 h and lost another row
C1_Witness ==
    /\ CleanWritten
    /\ Len(out_file.rows) < Len(raw_file.rows)
    /\ \E r \in Rows(out_file) : EqInt(r["resolution_hours"], 720)

WeekendRule(r) ==
    /\ Has(r, "weekday") /\ Has(r, "is_weekend")
    /\ IsNumber(r["weekday"]) /\ IsNumber(r["is_weekend"])
    /\ \E w \in 0..6 :
         /\ EqInt(r["weekday"], w)
         /\ r["created_date"].tag = "datetime"
         /\ (r["created_date"].v[1] \div 1440 - DaysFromCivil(2025, 3, 3)) % 7 = w
    /\ EqInt(r["is_weekend"], 1) \/ EqInt(r["is_weekend"], 0)
    /\ EqInt(r["is_weekend"], 1) <=> (EqInt(r["weekday"], 5) \/ EqInt(r["weekday"], 6))

\* C2: in every row, weekday is the day of the week of created_date (0 =
\* Monday; 2025-03-03 is a Monday), is_weekend is 0 or 1, and is_weekend = 1
\* exactly when weekday is 5 or 6; before the downcast, after it, and in the
\* written file.
C2_WeekendIffSatSun ==
    /\ (script = "clean" /\ pc \in {"downcast", "save"}) => \A r \in Rows(df) : WeekendRule(r)
    /\ CleanWritten => \A r \in Rows(out_file) : WeekendRule(r)

\* a written table with a downcast Saturday row and a weekday row
C2_Witness ==
    /\ CleanWritten
    /\ \E r \in Rows(out_file) :
         /\ r["is_weekend"].tag = "float32"
         /\ EqInt(r["weekday"], 5) /\ EqInt(r["is_weekend"], 1)
    /\ \E r \in Rows(out_file) : EqInt(r["weekday"], 4) /\ EqInt(r["is_weekend"], 0)

PassthroughFromRaw ==
    /\ out_file.cols \cap Range(cols_to_keep) \subseteq raw_file.cols
    /\ out_file.cols \cap (raw_file.cols \ Range(cols_to_keep)) = {}
    /\ \A r \in Rows(out_file) : DOMAIN r = out_file.cols

\* C7 as stated: the output columns lie within a schema of 13 names.
C7_Original ==
    CleanWritten =>
        /\ out_file.cols \subseteq Schema
        /\ Cardinality(out_file.cols) <= 13
        /\ PassthroughFromRaw

\* C7 (amended): the columns of the cleaned output are contained in the fixed
\* schema of 14 names (the 9 passthrough columns and the 5 derived ones), every
\* passthrough column of the output was a column of the raw input, and no raw
\* column outside the wanted list reaches the output.
C7_ColumnsWithinSchema ==
    /\ Cardinality(Schema) = 14
    /\ CleanWritten =>
        /\ out_file.cols \subseteq Schema
        /\ PassthroughFromRaw

\* a written table from a raw table that had an unwanted column and lacked
\* wanted ones
C7_Witness ==
    /\ CleanWritten
    /\ raw_file.cols \cap ExtraCols # {}
    /\ Cardinality(raw_file.cols \cap OtherWanted) = 1
    /\ out_file.rows # <<>>

CleanFatal == raw_file = NoFile \/ ~(DateCols \subseteq raw_file.cols)

\* C8: the cleaner ends in an error, the output path left as it was, exactly
\* when the raw file is missing or lacks created_date or closed_date; in every
\* other case, whichever of the other 7 wanted columns are absent, it runs on
\* to the end and writes a table that has the wanted columns the raw table
\* had and not the absent ones.
C8_FatalOnlyOnMissingInput ==
    script = "clean" =>
        /\ outcome = "error" => (CleanFatal /\ out_file = prior_file)
        /\ outcome = "ok" =>
             /\ ~CleanFatal
             /\ CleanWritten
             /\ out_file.cols \cap OtherWanted = raw_file.cols \cap OtherWanted
        /\ outcome = "running" => (pc # "done" /\ out_file = prior_file)
        /\ (outcome = "running" /\ pc \in {"load", "project", "parse"}) => ENABLED NextClean
        /\ CleanFatal => pc \in {"load", "project", "parse"}

\* a completed run on a raw table that lacked all of the other 7 columns
C8_Witness ==
    /\ CleanWritten /\ outcome = "ok"
    /\ raw_file.cols \cap OtherWanted = {}
    /\ out_file.rows # <<>>

(***************************************************************************)
(* Properties of the downloaders (checked under SpecDownload).             *)
(***************************************************************************)
IsPage(resp) == resp.status = "200"
IsEmptyPage(resp) == IsPage(resp) /\ resp.body = <<>>
IsFullPage(resp) == IsPage(resp) /\ RowCount(resp.body) = LIMIT

RECURSIVE Bodies(_)
\* the rows of the pages received, in arrival order
Bodies(rs) == IF rs = <<>> THEN <<>> ELSE Head(rs).body \o Bodies(Tail(rs))

NonEmptyPages == SelectSeq(responses, LAMBDA x : IsPage(x) /\ x.body # <<>>)

Accumulated == IF script = "y2025" THEN Flatten(all_chunks) ELSE all_rows

LoopLeft == pc \in {"after_loop", "validate", "convert", "save", "done"}

\* C3: when the server has answered N full pages and then an empty page, the
\* loop has ended, N + 1 requests were issued and no more are, and N * LIMIT
\* rows have been accumulated (and are the rows of the table built from
\* them); while only full pages have arrived the loop goes on.
C3_FullPagesThenEmpty ==
    Paginated =>
        LET n == Len(responses) - 1 IN
        /\ (/\ responses # <<>>
            /\ IsEmptyPage(responses[Len(responses)])
            /\ \A i \in 1..n : IsFullPage(responses[i]))
           => /\ LoopLeft
              /\ Len(requests) = n + 1
              /\ RowCount(Accumulated) = n * LIMIT
              /\ (script = "y2025" /\ pc = "validate") => RowCount(df.rows) = n * LIMIT
              /\ (script = "full_year" /\ pc \in {"save", "done"})
                    => RowCount(df.rows) = n * LIMIT
        /\ (\A i \in 1..Len(responses) : IsFullPage(responses[i]))
           => /\ pc = "loop" /\ outcome = "running"
              /\ RowCount(Accumulated) = Len(responses) * LIMIT

\* a finished run of two full pages and an empty one
C3_Witness ==
    /\ Paginated /\ pc = "done"
    /\ Len(requests) = 3
    /\ IsFullPage(responses[1]) /\ IsFullPage(responses[2]) /\ IsEmptyPage(responses[3])
    /\ RowCount(Accumulated) = 2 * LIMIT

\* C4: a failed request is the last request of the run: the run is in the
\* error outcome, nothing more can happen, and the output path holds what it
\* held before the run; the path is written only by a run that returns.
C4_FailureAborts ==
    /\ \A i \in 1..Len(responses) :
          responses[i].status \in Failures =>
             /\ i = Len(responses)
             /\ outcome = "error"
             /\ out_file = prior_file
             /\ ~ENABLED NextDownload
    /\ outcome = "error" =>
          (responses # <<>> /\ responses[Len(responses)].status \in Failures)
    /\ out_file # prior_file => outcome = "ok"

\* a failure after two pages were accumulated, over an existing file
C4_Witness ==
    /\ Paginated /\ outcome = "error"
    /\ Len(responses) = 3
    /\ RowCount(Accumulated) > 0
    /\ prior_file = StaleTable /\ out_file = StaleTable

EmptyTable == [cols |-> {}, rows |-> <<>>]

FirstPageEmpty == responses # <<>> /\ IsEmptyPage(responses[1])

\* C5 as stated: in both paginated downloaders an empty first page leads to a
\* return without concatenating, converting or writing.
C5_Original ==
    (Paginated /\ FirstPageEmpty) =>
        /\ outcome # "error"
        /\ pc \in {"after_loop", "convert", "done"}
        /\ df = NoTable
        /\ out_file = prior_file

\* C5 (amended): when the first page is empty, download_311_2025 returns
\* early without error, without building a table and without writing;
\* download_311_full_year has no early return: it raises no error either, but
\* goes on to convert the empty row list and writes an empty table.
C5_EmptyFirstPage ==
    (Paginated /\ FirstPageEmpty) =>
        /\ outcome # "error"
        /\ Len(requests) = 1
        /\ script = "y2025" =>
             /\ pc \in {"after_loop", "done"}
             /\ df = NoTable
             /\ out_file = prior_file
        /\ script = "full_year" =>
             /\ pc \in {"convert", "save", "done"}
             /\ pc \in {"save", "done"} => df = EmptyTable
             /\ pc = "done" => out_file = EmptyTable
             /\ outcome = "ok" => pc = "done"

\* the 2025 downloader returned on an empty first page, the old file in place
C5_Witness ==
    /\ script = "y2025" /\ FirstPageEmpty
    /\ pc = "done" /\ outcome = "ok"
    /\ prior_file = StaleTable /\ out_file = StaleTable

\* the table a finished run builds from the pages it received
Built ==
    IF script = "y2025"
    THEN LET t == DataFrame(Bodies(responses))
         IN  IF "created_date" \in t.cols THEN YearFilter(t) ELSE t
    ELSE DataFrame(Bodies(responses))

\* C6 as stated: every run that returns has replaced the content of its
\* output path by the table built from the pages of this run.
C6_Original ==
    (script \in {"y2025", "full_year", "sample"} /\ outcome = "ok") =>
        /\ out_file = Built
        /\ out_file # prior_file

\* C6 (amended): every run that returns has replaced the content of its
\* output path by the table built from the pages of this run, nothing of the
\* prior content remaining, except a download_311_2025 run that received no
\* rows: it returns without writing and the path holds what it held before.
C6_Overwrites ==
    (script \in {"y2025", "full_year", "sample"} /\ outcome = "ok") =>
        IF script = "y2025" /\ NonEmptyPages = <<>>
        THEN out_file = prior_file
        ELSE /\ out_file = Built
             /\ out_file # prior_file
             /\ "stale" \notin out_file.cols

\* a returned run that replaced an existing file by downloaded rows
C6_Witness ==
    /\ script = "full_year" /\ outcome = "ok"
    /\ prior_file = StaleTable
    /\ out_file # StaleTable
    /\ RowCount(out_file.rows) > LIMIT

\* a downloaded row whose created_date text is a timestamp of the year YEAR
GoodRow(row) ==
    /\ Has(row, "created_date")
    /\ row["created_date"].tag = "str"
    /\ IsValidStamp(row["created_date"].v)
    /\ row["created_date"].v[1] = YEAR

RowInYear(r) ==
    /\ Has(r, "created_date")
    /\ r["created_date"].tag = "datetime"
    /\ r["created_date"].v[1] \in
          (DaysFromCivil(YEAR, 1, 1) * 1440)..(DaysFromCivil(YEAR + 1, 1, 1) * 1440 - 1)

Y25Written == script = "y2025" /\ pc = "done" /\ out_file # prior_file

GoodCount == RowCount(SelectSeq(Bodies(responses), LAMBDA g : GoodRow(g.row)))

\* C9 as stated: every row the 2025 downloader writes has a parsed
\* created_date of the year YEAR, and every such downloaded row is written.
C9_Original ==
    Y25Written =>
        /\ \A r \in Rows(out_file) : RowInYear(r)
        /\ RowCount(out_file.rows) = GoodCount

\* C9 (amended): when at least one downloaded row carries a created_date
\* field, every row the 2025 downloader writes has a parsed created_date of
\* the year YEAR and every such downloaded row is written; when no downloaded
\* row carries the field, the table has no created_date column, nothing is
\* filtered and all downloaded rows are written.
C9_YearFilter ==
    Y25Written =>
        IF "created_date" \in Keys(Bodies(responses))
        THEN /\ \A r \in Rows(out_file) : RowInYear(r)
             /\ RowCount(out_file.rows) = GoodCount
        ELSE /\ "created_date" \notin out_file.cols
             /\ RowCount(out_file.rows) = RowCount(Bodies(responses))

\* a written file that kept the rows of 2025 and lost others
C9_Witness ==
    /\ Y25Written
    /\ RowCount(out_file.rows) = LIMIT - 1
    /\ RowCount(Bodies(responses)) > LIMIT

\* C10: the k-th request carries offset (k - 1) * LIMIT, the offset having
\* grown by LIMIT after every non-empty page whatever its length; the loop is
\* left only on an empty page, and after a non-empty page it is still
\* running; the rows accumulated are the non-empty pages in arrival order
\* and their number is the sum of the page lengths.
C10_OffsetsAndAccumulation ==
    Paginated =>
        /\ \A k \in 1..Len(requests) :
              requests[k] = [limit |-> LIMIT, offset |-> (k - 1) * LIMIT]
        /\ offset = Len(NonEmptyPages) * LIMIT
        /\ LoopLeft => IsEmptyPage(responses[Len(responses)])
        /\ (responses # <<>> /\ ~IsEmptyPage(responses[Len(responses)]) /\ outcome = "running")
              => pc = "loop"
        /\ script = "full_year" => all_rows = Bodies(NonEmptyPages)
        /\ script = "y2025" =>
              /\ Len(all_chunks) = Len(NonEmptyPages)
              /\ \A i \in 1..Len(all_chunks) :
                    /\ Len(all_chunks[i].rows) = Len(NonEmptyPages[i].body)
                    /\ \A j \in 1..Len(all_chunks[i].rows) :
                          LET g == all_chunks[i].rows[j]
                              h == NonEmptyPages[i].body[j]
                          IN  /\ g.n = h.n
                              /\ \A c \in DOMAIN h.row : g.row[c] = h.row[c]
              /\ total_rows = RowCount(Bodies(NonEmptyPages))
        /\ RowCount(Accumulated) = RowCount(Bodies(NonEmptyPages))

\* a third request at offset 2 * LIMIT although the first page held one row
C10_Witness ==
    /\ Paginated
    /\ Len(requests) = 3
    /\ RowCount(responses[1].body) = 1
    /\ requests[3].offset = 2 * LIMIT
    /\ RowCount(Accumulated) < 2 * LIMIT

====
